---- MODULE Spec2Model ----
(***************************************************************************)
(* StandardMerkleTree (src/src/standard_binary_tree.rs) as a state machine.*)
(*                                                                         *)
(* Byte strings are sequences of byte values.  keccak256 is modelled as a  *)
(* collision-free function: the digest of a byte string is a self-         *)
(* delimiting term over that byte string, so two digests are equal exactly *)
(* when their preimages are.  The order on B256 is a total order on these  *)
(* terms.  Tree positions are 0-based as in the source; At/Put translate   *)
(* to TLA+'s 1-based sequences.                                            *)
(***************************************************************************)
EXTENDS Integers, Sequences, FiniteSets, TLC

VARIABLES status, leaves, tree, tree_values, heldProof, heldFor, result

vars == <<status, leaves, tree, tree_values, heldProof, heldFor, result>>

\* Longest leaf sequence given to `of`.
MaxLeaves == 4

\* Bytes in a fixed-size word.  The source's word (B256) has 32; no operation
\* looks inside a word except its hex Display and the hash, so the model
\* runs on a narrower one.
WordLen == 2

----------------------------------------------------------------------------
\* Byte strings and leaf values (DynSolValue)

Range(s) == {s[i] : i \in 1..Len(s)}

\* A word whose last byte is b and whose other bytes are zero.
Word(b) == [i \in 1..WordLen |-> IF i = WordLen THEN b ELSE 0]

\* ASCII code of one lowercase hex digit.
HexDigit(d) == IF d < 10 THEN 48 + d ELSE 87 + d

\* Display of a FixedBytes word: "0x" followed by two hex digits per byte.
ToHexString(w) ==
    <<48, 120>> \o
    [i \in 1..(2 * Len(w)) |->
        HexDigit(IF i % 2 = 1 THEN w[(i + 1) \div 2] \div 16
                              ELSE w[i \div 2] % 16)]

SolString(s) == [kind |-> "String", data |-> s]
SolFixedBytes(w) == [kind |-> "FixedBytes", data |-> w]
SolUint(n) == [kind |-> "Uint", data |-> <<n>>]
NoValue == [kind |-> "none", data |-> <<>>]

\* "42" and "43" as UTF-8 bytes.
Text42 == <<52, 50>>
Text43 == <<52, 51>>

SupportedValues ==
    { SolString(Text42), SolString(Text43), SolString(ToHexString(Word(1))),
      SolFixedBytes(Word(1)) }

UnsupportedValues == { SolUint(7) }

LeafValues == SupportedValues \cup UnsupportedValues

IsSupported(value) == value.kind \in {"String", "FixedBytes"}

RECURSIVE SeqsUpTo(_, _)
SeqsUpTo(S, n) ==
    IF n = 0 THEN { <<>> }
    ELSE LET shorter == SeqsUpTo(S, n - 1)
         IN  shorter \cup { Append(s, x) : s \in {t \in shorter : Len(t) = n - 1}, x \in S }

----------------------------------------------------------------------------
\* Hash primitive

\* keccak256 as a collision-free function: length-prefixed preimage.
Keccak256(bytes) == <<Len(bytes)>> \o bytes

\* B256::default()
ZeroDigest == <<>>

\* The order on B256 (`<=`): lexicographic, a proper prefix first.
DigestLe(a, b) ==
    LET n == IF Len(a) < Len(b) THEN Len(a) ELSE Len(b)
        differ == {i \in 1..n : a[i] # b[i]}
    IN  IF differ = {} THEN Len(a) <= Len(b)
        ELSE LET first == CHOOSE i \in differ : \A j \in differ : i <= j
             IN  a[first] < b[first]

HashPair(left, right) ==
    LET combined == IF DigestLe(left, right) THEN left ELSE right
        second == IF DigestLe(left, right) THEN right ELSE left
    IN  Keccak256(combined \o second)

----------------------------------------------------------------------------
\* Leaf encoder

\* The serialized key of a value; Panic for an unsupported kind.
Panic == <<-1>>

CheckValidValueType(value) ==
    IF value.kind = "String" THEN value.data
    ELSE IF value.kind = "FixedBytes" THEN ToHexString(value.data)
    ELSE Panic

\* Variant: the leaf hashed once instead of twice.
StandardLeafHashSingle(value) ==
    IF IsSupported(value) THEN Keccak256(value.data) ELSE Panic

StandardLeafHash(value) ==
    IF value.kind = "String" THEN Keccak256(Keccak256(value.data))
    ELSE IF value.kind = "FixedBytes" THEN Keccak256(Keccak256(value.data))
    ELSE Panic

----------------------------------------------------------------------------
\* Index arithmetic

At(t, i) == t[i + 1]
Put(t, i, d) == [t EXCEPT ![i + 1] = d]

LeftChildIndex(index) == 2 * index + 1

\* Variant: the right child taken to be the left child.
RightChildIndexSame(index) == 2 * index + 1

RightChildIndex(index) == 2 * index + 2

Ok(v) == [err |-> "", val |-> v]
Err(e) == [err |-> e, val |-> 0]

\* Variant: the sibling taken as the next position whatever the parity.
SiblingIndexNext(index) ==
    IF index = 0 THEN Err("RootHaveNoSiblings") ELSE Ok(index + 1)

SiblingIndex(index) ==
    IF index = 0 THEN Err("RootHaveNoSiblings")
    ELSE IF index % 2 = 0 THEN Ok(index - 1)
    ELSE Ok(index + 1)

ParentIndex(index) == (index - 1) \div 2

IsTreeNode(t, index) == index < Len(t)
IsInternalNode(t, index) == IsTreeNode(t, LeftChildIndex(index))
IsLeafNode(t, index) == ~IsInternalNode(t, index) /\ IsTreeNode(t, index)

CheckLeafNode(t, index) ==
    IF ~IsLeafNode(t, index) THEN Err("InvalidCheck") ELSE Ok(0)

----------------------------------------------------------------------------
\* Tree builder

\* The second loop of make_merkle_tree: positions i, i-1, ..., 0 in turn.
RECURSIVE HashUp(_, _)
HashUp(t, i) ==
    IF i < 0 THEN t
    ELSE LET left == At(t, LeftChildIndex(i))
             right == At(t, RightChildIndex(i))
         IN  HashUp(Put(t, i, HashPair(left, right)), i - 1)

\* Variant: leaves placed at the tail in input order, not reversed.
RECURSIVE PlaceLeavesForward(_, _, _)
PlaceLeavesForward(t, hashes, i) ==
    IF i >= Len(hashes) THEN t
    ELSE PlaceLeavesForward(Put(t, Len(t) - Len(hashes) + i, At(hashes, i)),
                            hashes, i + 1)

\* The first loop of make_merkle_tree: leaf i goes to tree_len - 1 - i.
RECURSIVE PlaceLeaves(_, _, _)
PlaceLeaves(t, hashes, i) ==
    IF i >= Len(hashes) THEN t
    ELSE PlaceLeaves(Put(t, Len(t) - 1 - i, At(hashes, i)), hashes, i + 1)

\* make_merkle_tree.  With no leaves, 2 * 0 - 1 underflows usize: a checked
\* build panics at the subtraction, an unchecked build wraps to usize::MAX
\* and vec! panics on the capacity; either way the call panics.
MakeMerkleTree(hashes) ==
    IF 2 * Len(hashes) - 1 < 0 THEN [panic |-> TRUE, tree |-> <<>>]
    ELSE LET tree_len == 2 * Len(hashes) - 1
             leaves_len == Len(hashes)
         IN  [panic |-> FALSE,
              tree |-> HashUp(PlaceLeaves([p \in 1..tree_len |-> ZeroDigest], hashes, 0),
                              tree_len - leaves_len - 1)]

----------------------------------------------------------------------------
\* Proof generator and verifier

\* The while loop of make_proof, from current_index to the root.
RECURSIVE ProofLoop(_, _)
ProofLoop(t, current_index) ==
    IF current_index > 0
    THEN LET sibling == SiblingIndex(current_index)
         IN  IF sibling.err # "" THEN Err(sibling.err)
             ELSE LET rest == ProofLoop(t, ParentIndex(current_index))
                      here == IF sibling.val < Len(t)
                              THEN <<At(t, sibling.val)>> ELSE <<>>
                  IN  IF rest.err # "" THEN rest ELSE Ok(here \o rest.val)
    ELSE Ok(<<>>)

MakeProof(t, index) ==
    IF CheckLeafNode(t, index).err # "" THEN Err(CheckLeafNode(t, index).err)
    ELSE ProofLoop(t, index)

\* proof.into_iter().fold(leaf, hash_pair)
RECURSIVE ProcessProof(_, _)
ProcessProof(leaf, proof) ==
    IF proof = <<>> THEN leaf
    ELSE ProcessProof(HashPair(leaf, Head(proof)), Tail(proof))

----------------------------------------------------------------------------
\* Facade

EmptyMap == [k \in {} |-> 0]
\* Variant: an insert that keeps the entry a key already has.
MapInsertKeepFirst(m, k, v) ==
    [x \in (DOMAIN m) \cup {k} |-> IF x \in DOMAIN m THEN m[x] ELSE v]

MapInsert(m, k, v) == [x \in (DOMAIN m) \cup {k} |-> IF x = k THEN v ELSE m[x]]

\* The insert loop of `new` over values[i..], in order.
RECURSIVE InsertAll(_, _, _)
InsertAll(m, values, i) ==
    IF i > Len(values) THEN m
    ELSE InsertAll(MapInsert(m, CheckValidValueType(values[i][1]), values[i][2]),
                   values, i + 1)

\* StandardMerkleTree::new
New(t, values) ==
    IF \E i \in 1..Len(values) : CheckValidValueType(values[i][1]) = Panic
    THEN [panic |-> TRUE, tree |-> <<>>, tree_values |-> EmptyMap]
    ELSE [panic |-> FALSE, tree |-> t, tree_values |-> InsertAll(EmptyMap, values, 1)]

\* indexed_values of `of`: value k is given tree.len() - k - 1.
IndexedValues(values, t) ==
    [k \in 1..Len(values) |-> <<values[k], Len(t) - (k - 1) - 1>>]

\* StandardMerkleTree::of
OfValues(values) ==
    IF \E i \in 1..Len(values) : StandardLeafHash(values[i]) = Panic
    THEN [panic |-> TRUE, tree |-> <<>>, tree_values |-> EmptyMap]
    ELSE LET hashed_values_hash == [i \in 1..Len(values) |-> StandardLeafHash(values[i])]
             made == MakeMerkleTree(hashed_values_hash)
         IN  IF made.panic
             THEN [panic |-> TRUE, tree |-> <<>>, tree_values |-> EmptyMap]
             ELSE New(made.tree, IndexedValues(values, made.tree))

\* StandardMerkleTree::get_proof on the handle (t, m).
GetProofOf(t, m, value) ==
    LET tree_key == CheckValidValueType(value)
    IN  IF tree_key = Panic THEN Err("panic")
        ELSE IF tree_key \notin DOMAIN m THEN Err("LeafNotFound")
        ELSE MakeProof(t, m[tree_key])

\* StandardMerkleTree::verify_proof on the handle; tree[0] of an empty
\* array is an out-of-bounds index, which panics.
VerifyProofOf(t, value, proof) ==
    LET leaf_hash == StandardLeafHash(value)
    IN  IF leaf_hash = Panic THEN "panic"
        ELSE IF Len(t) = 0 THEN "panic"
        ELSE IF At(t, 0) = ProcessProof(leaf_hash, proof) THEN "true" ELSE "false"

----------------------------------------------------------------------------
\* State machine: one process that constructs a handle and then queries it

NoResult == [op |-> "none", arg |-> NoValue, out |-> "", proof |-> <<>>, digest |-> <<>>]

Init ==
    /\ status = "none"
    /\ leaves = <<>>
    /\ tree = <<>>
    /\ tree_values = EmptyMap
    /\ heldProof = <<>>
    /\ heldFor = NoValue
    /\ result = NoResult

\* let tree = StandardMerkleTree::of(&values)
Of ==
    /\ status = "none"
    /\ \E values \in SeqsUpTo(LeafValues, MaxLeaves) :
         LET built == OfValues(values)
         IN  /\ leaves' = values
             /\ status' = IF built.panic THEN "panicked" ELSE "built"
             /\ tree' = built.tree
             /\ tree_values' = built.tree_values
             /\ result' = [NoResult EXCEPT !.op = "of",
                              !.out = IF built.panic THEN "panic" ELSE "ok"]
    /\ UNCHANGED <<heldProof, heldFor>>

\* let tree = StandardMerkleTree::default()
Default ==
    /\ status = "none"
    /\ LET built == New(<<>>, <<>>)
       IN  /\ status' = IF built.panic THEN "panicked" ELSE "built"
           /\ tree' = built.tree
           /\ tree_values' = built.tree_values
           /\ result' = [NoResult EXCEPT !.op = "default",
                            !.out = IF built.panic THEN "panic" ELSE "ok"]
    /\ UNCHANGED <<leaves, heldProof, heldFor>>

\* tree.root()
Root ==
    /\ status = "built"
    /\ IF Len(tree) = 0
       THEN /\ status' = "panicked"
            /\ result' = [NoResult EXCEPT !.op = "root", !.out = "panic"]
       ELSE /\ status' = status
            /\ result' = [NoResult EXCEPT !.op = "root", !.out = "ok",
                             !.digest = At(tree, 0)]
    /\ UNCHANGED <<leaves, tree, tree_values, heldProof, heldFor>>

\* let proof = tree.get_proof(&value); the caller keeps an Ok proof.
GetProof ==
    /\ status = "built"
    /\ \E value \in LeafValues :
         LET got == GetProofOf(tree, tree_values, value)
         IN  /\ status' = IF got.err = "panic" THEN "panicked" ELSE status
             /\ result' = [NoResult EXCEPT !.op = "get_proof", !.arg = value,
                              !.out = IF got.err = "" THEN "ok" ELSE got.err,
                              !.proof = IF got.err = "" THEN got.val ELSE <<>>]
             /\ heldProof' = IF got.err = "" THEN got.val ELSE heldProof
             /\ heldFor' = IF got.err = "" THEN value ELSE heldFor
    /\ UNCHANGED <<leaves, tree, tree_values>>

\* tree.verify_proof(&leaf, proof) with the proof the caller holds.
VerifyProof ==
    /\ status = "built"
    /\ \E leaf \in LeafValues :
         LET out == VerifyProofOf(tree, leaf, heldProof)
         IN  /\ status' = IF out = "panic" THEN "panicked" ELSE status
             /\ result' = [NoResult EXCEPT !.op = "verify_proof", !.arg = leaf,
                              !.out = out, !.proof = heldProof]
    /\ UNCHANGED <<leaves, tree, tree_values, heldProof, heldFor>>

Next == Of \/ Default \/ Root \/ GetProof \/ VerifyProof

Spec == Init /\ [][Next]_vars

----------------------------------------------------------------------------
\* Properties

\* The handle in hand was built by `of` from n >= 1 leaves.
HandleFromOf == leaves # <<>> /\ tree # <<>>

NumLeaves == Len(leaves)

\* H(H(rawBytes(v))) written out, for a value of a supported kind.
LeafDigest(value) == <<Len(value.data) + 1, Len(value.data)>> \o value.data

\* The serialized key of a supported value, written out.
KeyOf(value) ==
    IF value.kind = "String" THEN value.data ELSE ToHexString(value.data)

RECURSIVE FloorLog2(_)
FloorLog2(x) == IF x <= 1 THEN 0 ELSE 1 + FloorLog2(x \div 2)

CeilLog2(x) == IF x <= 1 THEN 0 ELSE 1 + FloorLog2(x - 1)

\* The j-th ancestor of position p.
RECURSIVE Ancestor(_, _)
Ancestor(p, j) == IF j = 0 THEN p ELSE Ancestor((p - 1) \div 2, j - 1)

SiblingOf(i) == IF i % 2 = 0 THEN i - 1 ELSE i + 1

C2_WrongLeafRejected ==
    (/\ HandleFromOf
     /\ result.op = "verify_proof"
     /\ heldFor \in Range(leaves)
     /\ IsSupported(result.arg)
     /\ LeafDigest(result.arg) # LeafDigest(heldFor))
        => result.out = "false"

\* C3: non-membership.  On a handle built by `of`, get_proof of a value that
\* is not among the input leaves fails with LeafNotFound and in no other way.
C3_NonMembership ==
    (/\ HandleFromOf
     /\ result.op = "get_proof"
     /\ result.arg \notin Range(leaves))
        => result.out = "LeafNotFound" /\ status # "panicked"

\* C4: a value of an unsupported kind given to construction or to a query
\* yields the NotSupportedType failure and the process goes on.
C4_UnsupportedRejected ==
    (\/ (result.op = "of" /\ \E i \in 1..Len(leaves) : ~IsSupported(leaves[i]))
     \/ (result.op \in {"get_proof", "verify_proof"} /\ ~IsSupported(result.arg)))
        => result.out = "NotSupportedType" /\ status # "panicked"

\* C5: construction from zero leaves returns EmptyTreeRejected, no handle
\* holds an empty array, and root() always reads an existing tree[0].
C5_EmptyRejected ==
    /\ (result.op = "of" /\ leaves = <<>>
            => result.out = "EmptyTreeRejected" /\ status # "panicked")
    /\ (status = "built" => Len(tree) >= 1)
    /\ (result.op = "root" => result.out = "ok")

\* C6: the tree of exactly one supported leaf v has an array of length 1,
\* root H(H(rawBytes(v))), the empty proof for v, and verify_proof(v, [])
\* is true.
C6_SingleLeaf ==
    (HandleFromOf /\ NumLeaves = 1) =>
        /\ Len(tree) = 1
        /\ At(tree, 0) = LeafDigest(leaves[1])
        /\ (result.op = "root"
                => result.out = "ok" /\ result.digest = LeafDigest(leaves[1]))
        /\ (result.op = "get_proof" /\ result.arg = leaves[1]
                => result.out = "ok" /\ result.proof = <<>>)
        /\ (result.op = "verify_proof" /\ result.arg = leaves[1]
              /\ result.proof = <<>>
                => result.out = "true")

C6_Witness ==
    /\ HandleFromOf /\ NumLeaves = 1
    /\ result.op = "verify_proof" /\ result.arg = leaves[1]
    /\ heldFor = leaves[1] /\ result.proof = <<>> /\ result.out = "true"

\* C7: proof shape.  get_proof of a value indexed at position p returns one
\* digest per level from p to the root, the j-th being the sibling of the
\* (j-1)-th ancestor of p, every such sibling in range; its length is
\* floor(log2(p+1)), which is ceil(log2 n) or ceil(log2 n) - 1.
C7_ProofShape ==
    (HandleFromOf /\ result.op = "get_proof" /\ KeyOf(result.arg) \in DOMAIN tree_values
       /\ IsSupported(result.arg)) =>
        LET p == tree_values[KeyOf(result.arg)]
            proof == result.proof
        IN  /\ result.out = "ok"
            /\ Len(proof) = FloorLog2(p + 1)
            /\ Len(proof) \in {CeilLog2(NumLeaves), CeilLog2(NumLeaves) - 1}
            /\ Ancestor(p, Len(proof)) = 0
            /\ \A j \in 1..Len(proof) :
                 LET a == Ancestor(p, j - 1)
                 IN  /\ a > 0
                     /\ SiblingOf(a) < Len(tree)
                     /\ proof[j] = At(tree, SiblingOf(a))

C7_Witness ==
    /\ HandleFromOf /\ NumLeaves = 3
    /\ result.op = "get_proof" /\ result.out = "ok"
    /\ Cardinality(Range(leaves)) = 3
    /\ result.arg = leaves[3]
    /\ Len(result.proof) = 1
    /\ Len(result.proof) = CeilLog2(NumLeaves) - 1

\* C8: construction invariant.  The array has length 2n - 1, input leaf k
\* sits at (2n - 1) - 1 - k, every position in 0..n-2 has both children in
\* range and holds the pair hash of its children, and the leaf positions
\* are exactly n-1..2n-2.
C8_TreeInvariant ==
    HandleFromOf =>
        LET n == NumLeaves
        IN  /\ Len(tree) = 2 * n - 1
            /\ \A k \in 0..(n - 1) :
                 At(tree, (2 * n - 1) - 1 - k) = LeafDigest(leaves[k + 1])
            /\ \A i \in 0..(n - 2) :
                 /\ 2 * i + 2 < Len(tree)
                 /\ At(tree, i) = HashPair(At(tree, 2 * i + 1), At(tree, 2 * i + 2))
            /\ \A i \in 0..(2 * n) :
                 IsLeafNode(tree, i) <=> (n - 1 <= i /\ i <= 2 * n - 2)

C8_Witness ==
    /\ HandleFromOf /\ NumLeaves = 3
    /\ Cardinality(Range(leaves)) = 3
    /\ result.op = "of" /\ result.out = "ok"

\* C9 as stated: the last input leaf's digest is at len - 1 and the first
\* input leaf's digest is at len - n.
C9_LeafPlacementAsStated ==
    HandleFromOf =>
        /\ At(tree, Len(tree) - 1) = LeafDigest(leaves[NumLeaves])
        /\ At(tree, Len(tree) - NumLeaves) = LeafDigest(leaves[1])

\* C9 amended: the leaf digests occupy the last n positions, the first
\* input leaf's digest at len - 1 and the last input leaf's at len - n.
C9_LeafPlacement ==
    HandleFromOf =>
        /\ Len(tree) >= NumLeaves
        /\ { At(tree, p) : p \in (Len(tree) - NumLeaves)..(Len(tree) - 1) }
             = { LeafDigest(leaves[k]) : k \in 1..NumLeaves }
        /\ At(tree, Len(tree) - 1) = LeafDigest(leaves[1])
        /\ At(tree, Len(tree) - NumLeaves) = LeafDigest(leaves[NumLeaves])

C9_Witness ==
    /\ HandleFromOf /\ NumLeaves >= 2
    /\ LeafDigest(leaves[1]) # LeafDigest(leaves[NumLeaves])
    /\ result.op = "of" /\ result.out = "ok"

\* The largest 0-based input index whose leaf serializes to key.
LastIndexOf(key) ==
    CHOOSE k \in 0..(NumLeaves - 1) :
        /\ KeyOf(leaves[k + 1]) = key
        /\ \A j \in (k + 1)..(NumLeaves - 1) : KeyOf(leaves[j + 1]) # key

\* C10: the reverse index is last-write-wins.  Its keys are the input
\* leaves' keys; each key holds (2n - 1) - 1 - k for the largest input index
\* k with that key; get_proof of an earlier leaf with the same key returns
\* the proof of the later leaf's position, while the earlier leaf's digest
\* is still at its own position.
C10_LastWriteWins ==
    HandleFromOf =>
        LET n == NumLeaves
        IN  /\ DOMAIN tree_values = { KeyOf(leaves[k]) : k \in 1..n }
            /\ \A key \in DOMAIN tree_values :
                 tree_values[key] = (2 * n - 1) - 1 - LastIndexOf(key)
            /\ \A j \in 0..(n - 1) :
                 /\ At(tree, (2 * n - 1) - 1 - j) = LeafDigest(leaves[j + 1])
                 /\ (result.op = "get_proof" /\ result.arg = leaves[j + 1])
                      => /\ result.out = "ok"
                         /\ Len(result.proof) =
                              FloorLog2(2 * n - 1 - LastIndexOf(KeyOf(leaves[j + 1])))
                         /\ (Len(result.proof) > 0 =>
                               result.proof[1] =
                                 At(tree, SiblingOf((2 * n - 1) - 1
                                          - LastIndexOf(KeyOf(leaves[j + 1])))))

C10_Witness ==
    /\ HandleFromOf /\ NumLeaves = 3
    /\ leaves[1] = SolFixedBytes(Word(1))
    /\ leaves[2] = SolString(ToHexString(Word(1)))
    /\ result.op = "get_proof" /\ result.arg = leaves[1] /\ result.out = "ok"
    /\ result.proof[1] = At(tree, SiblingOf(3))

====
